---- MODULE Spec2Model ----
(***************************************************************************)
(* Model of the CoreControl agent's server monitor (package server):       *)
(* MonitorServers, shouldSendNotification, the metric fetchers,            *)
(* sendStatusChangeNotification, updateServerStatus,                       *)
(* addServerHistoryEntry and formatUptime.                                 *)
(*                                                                         *)
(* Strings are sequences of one-character strings.  float64 metrics are    *)
(* integers counting thousandths; a "%.2f" rendering is the integer count  *)
(* of hundredths it prints.                                                *)
(***************************************************************************)
EXTENDS Integers, Sequences, FiniteSets, TLC

(* ------------------------------ bounds --------------------------------- *)

\* number of servers in the list handed to MonitorServers (ids 1..NumServers)
NumServers == 2

ServerIDs == 1..NumServers

\* number of detector calls followed when the detector is driven on its own
MaxCalls == 4

\* number of goroutines calling shouldSendNotification concurrently
NumCallers == 2

(* ------------------------------ strings -------------------------------- *)

EmptyStr == <<>>

\* does string s carry the string pat at position k (1-based)?
HasPrefixAt(s, pat, k) ==
    /\ k + Len(pat) - 1 <= Len(s)
    /\ \A j \in 1..Len(pat) : s[k + j - 1] = pat[j]

RECURSIVE ReplaceFrom(_, _, _, _)
ReplaceFrom(s, old, new, k) ==
    IF k > Len(s) THEN <<>>
    ELSE IF HasPrefixAt(s, old, k)
         THEN new \o ReplaceFrom(s, old, new, k + Len(old))
         ELSE <<s[k]>> \o ReplaceFrom(s, old, new, k + 1)

\* strings.ReplaceAll for a non-empty old: non-overlapping, left to right
\* (str is the value of the argument s, taken once as Go evaluates it)
ReplaceAll(s, old, new) ==
    CHOOSE r \in { ReplaceFrom(str, old, new, 1) : str \in {s} } : TRUE

NamePlaceholder == <<"!", "n", "a", "m", "e">>
StatusPlaceholder == <<"!", "s", "t", "a", "t", "u", "s">>
OnlineWord == <<"o", "n", "l", "i", "n", "e">>
OfflineWord == <<"o", "f", "f", "l", "i", "n", "e">>

\* "The server !name is now !status!"
DefaultTemplate ==
    <<"T", "h", "e", " ", "s", "e", "r", "v", "e", "r", " ">> \o NamePlaceholder
    \o <<" ", "i", "s", " ", "n", "o", "w", " ">> \o StatusPlaceholder \o <<"!">>

\* a template configured in the settings table: "!status: !name"
CustomTemplate == StatusPlaceholder \o <<":", " ">> \o NamePlaceholder

\* results of SELECT notification_text_server FROM settings LIMIT 1
SettingsReads ==
    { [err |-> TRUE,  text |-> EmptyStr],
      [err |-> FALSE, text |-> EmptyStr],
      [err |-> FALSE, text |-> CustomTemplate] }

\* models.Server.Name of the server with the given id
ServerName(id) ==
    IF id = 1 THEN <<"w", "e", "b">>
    ELSE IF id = 2 THEN <<"d", "b">> \o StatusPlaceholder
    ELSE <<"n", "a", "s">>

(* ------------------------- fmt.Sscanf, time ---------------------------- *)

Digits == <<"0", "1", "2", "3", "4", "5", "6", "7", "8", "9">>

IsDigit(c) == \E d \in 1..10 : Digits[d] = c

DigitVal(c) == (CHOOSE d \in 1..10 : Digits[d] = c) - 1

RECURSIVE SkipSpace(_, _)
\* ss.SkipSpace: the first position at or after k that holds no space
SkipSpace(s, k) ==
    IF k <= Len(s) /\ s[k] = " " THEN SkipSpace(s, k + 1) ELSE k

RECURSIVE NumberEnd(_, _)
\* ss.scanNumber: the position after the run of digits and underscores at k
NumberEnd(s, k) ==
    IF k <= Len(s) /\ (IsDigit(s[k]) \/ s[k] = "_") THEN NumberEnd(s, k + 1) ELSE k

RECURSIVE ParseDigits(_, _, _, _)
\* strconv.ParseInt(tok, 10, 64) on the digits s[k..e-1], folded from acc
ParseDigits(s, k, e, acc) ==
    IF k >= e THEN acc ELSE ParseDigits(s, k + 1, e, acc * 10 + DigitVal(s[k]))

\* ss.scanInt for the verb %d at position k: leading spaces, an optional
\* sign, then at least one digit; an underscore is scanned and then
\* rejected by ParseInt
ScanInt(s, k) ==
    LET a == SkipSpace(s, k)
        neg == a <= Len(s) /\ s[a] = "-"
        b == IF a <= Len(s) /\ s[a] \in {"+", "-"} THEN a + 1 ELSE a
        e == NumberEnd(s, b)
    IN  IF a > Len(s) \/ e = b \/ (\E q \in b..(e - 1) : s[q] = "_")
        THEN [err |-> TRUE, val |-> 0, next |-> k]
        ELSE [err |-> FALSE,
              val |-> IF neg THEN 0 - ParseDigits(s, b, e, 0)
                             ELSE ParseDigits(s, b, e, 0),
              next |-> e]

RECURSIVE DoScanf(_, _, _, _, _)
\* ss.doScanf: walks the format f from position j against the input s from
\* position k.  A space of the format needs a space or the end of the
\* input and takes the whole run of spaces; %d scans an integer; any other
\* character must be read from the input as it stands.  Input left over
\* after the format is no error.
DoScanf(s, k, f, j, vals) ==
    IF j > Len(f) THEN [err |-> FALSE, vals |-> vals]
    ELSE IF f[j] = " "
    THEN IF k <= Len(s) /\ s[k] # " "
         THEN [err |-> TRUE, vals |-> vals]
         ELSE DoScanf(s, SkipSpace(s, k), f, j + 1, vals)
    ELSE IF f[j] = "%"
    THEN LET r == ScanInt(s, k)
         IN  IF r.err THEN [err |-> TRUE, vals |-> vals]
             ELSE DoScanf(s, r.next, f, j + 2, Append(vals, r.val))
    ELSE IF k <= Len(s) /\ s[k] = f[j]
    THEN DoScanf(s, k + 1, f, j + 1, vals)
    ELSE [err |-> TRUE, vals |-> vals]

\* fmt.Sscanf(s, format, ...)
Sscanf(s, format) == DoScanf(s, 1, format, 1, <<>>)

FormatDays == <<"%", "d", " ", "d", "a", "y", "s">>
FormatDay == <<"%", "d", " ", "d", "a", "y">>
FormatTime == <<"%", "d", ":", "%", "d", ":", "%", "d">>
CommaSpace == <<",", " ">>

RECURSIVE SplitFrom(_, _, _, _)
SplitFrom(s, sep, k, cur) ==
    IF k > Len(s) THEN <<cur>>
    ELSE IF HasPrefixAt(s, sep, k)
         THEN <<cur>> \o SplitFrom(s, sep, k + Len(sep), <<>>)
         ELSE SplitFrom(s, sep, k + 1, Append(cur, s[k]))

\* strings.Split(s, sep) for a non-empty sep
Split(s, sep) == SplitFrom(s, sep, 1, <<>>)

RECURSIVE Itoa(_)
\* decimal rendering of a natural number
Itoa(n) == IF n < 10 THEN <<Digits[n + 1]>> ELSE Itoa(n \div 10) \o <<Digits[(n % 10) + 1]>>

\* two-digit rendering with a leading zero ("15", "04" of the layout)
Pad2(n) == IF n < 10 THEN <<"0">> \o Itoa(n) ELSE Itoa(n)

SecondsPerMinute == 60
SecondsPerHour == 3600
SecondsPerDay == 86400
DaysPerYear == 365

\* days of a common year before the first of each month
DaysBefore == <<0, 31, 59, 90, 120, 151, 181, 212, 243, 273, 304, 334, 365>>

\* An instant is a count of seconds since 1 January 00:00:00 of a common
\* year, in the local zone; instants before it fall into the year before,
\* taken as a common year too.  Month and day of the instant:
MonthOf(t) ==
    LET yday == (t \div SecondsPerDay) % DaysPerYear
    IN  CHOOSE m \in 1..12 : DaysBefore[m] <= yday /\ yday < DaysBefore[m + 1]

DayOf(t) == ((t \div SecondsPerDay) % DaysPerYear) - DaysBefore[MonthOf(t)] + 1

HourOf(t) == (t % SecondsPerDay) \div SecondsPerHour

MinuteOf(t) == (t % SecondsPerHour) \div SecondsPerMinute

\* time.Time.Format("2.1 15:04")
FormatLayout(t) ==
    Itoa(DayOf(t)) \o <<".">> \o Itoa(MonthOf(t)) \o <<" ">>
    \o Pad2(HourOf(t)) \o <<":">> \o Pad2(MinuteOf(t))

\* formatUptime giving the empty string when the time part does not parse
formatUptime_EmptyOnError(uptimeStr, now) ==
    LET parts == Split(uptimeStr, CommaSpace)
        plural == Sscanf(parts[1], FormatDays)
        singular == Sscanf(parts[1], FormatDay)
        daysErr == Len(parts) = 2 /\ plural.err /\ singular.err
        days == IF Len(parts) = 2
                THEN (IF plural.err THEN singular.vals[1] ELSE plural.vals[1])
                ELSE 0
        timeStr == IF Len(parts) = 2 THEN parts[2] ELSE parts[1]
        hms == Sscanf(timeStr, FormatTime)
        duration == days * 24 * SecondsPerHour + hms.vals[1] * SecondsPerHour
                    + hms.vals[2] * SecondsPerMinute + hms.vals[3]
    IN  IF Len(parts) \notin {1, 2} THEN uptimeStr
        ELSE IF daysErr THEN uptimeStr
        ELSE IF hms.err THEN EmptyStr
        ELSE FormatLayout(now - duration)

\* formatUptime without the second try for the singular "day"
formatUptime_PluralOnly(uptimeStr, now) ==
    LET parts == Split(uptimeStr, CommaSpace)
        plural == Sscanf(parts[1], FormatDays)
        daysErr == Len(parts) = 2 /\ plural.err
        days == IF Len(parts) = 2 THEN plural.vals[1] ELSE 0
        timeStr == IF Len(parts) = 2 THEN parts[2] ELSE parts[1]
        hms == Sscanf(timeStr, FormatTime)
        duration == days * 24 * SecondsPerHour + hms.vals[1] * SecondsPerHour
                    + hms.vals[2] * SecondsPerMinute + hms.vals[3]
    IN  IF Len(parts) \notin {1, 2} THEN uptimeStr
        ELSE IF daysErr THEN uptimeStr
        ELSE IF hms.err THEN uptimeStr
        ELSE FormatLayout(now - duration)

\* formatUptime with time.Now() = now
formatUptime(uptimeStr, now) ==
    LET parts == Split(uptimeStr, CommaSpace)
        plural == Sscanf(parts[1], FormatDays)
        singular == Sscanf(parts[1], FormatDay)
        daysErr == Len(parts) = 2 /\ plural.err /\ singular.err
        days == IF Len(parts) = 2
                THEN (IF plural.err THEN singular.vals[1] ELSE plural.vals[1])
                ELSE 0
        timeStr == IF Len(parts) = 2 THEN parts[2] ELSE parts[1]
        hms == Sscanf(timeStr, FormatTime)
        duration == days * 24 * SecondsPerHour + hms.vals[1] * SecondsPerHour
                    + hms.vals[2] * SecondsPerMinute + hms.vals[3]
    IN  IF Len(parts) \notin {1, 2} THEN uptimeStr
        ELSE IF daysErr THEN uptimeStr
        ELSE IF hms.err THEN uptimeStr
        ELSE FormatLayout(now - duration)

(* --------------------------- metric fetchers --------------------------- *)

StatusOK == 200

\* the answers of client.Get and of decoding the body that the fetchers
\* tell apart; data is what the body decodes to (or would decode to)
HTTPAnswers(data) ==
    { [err |-> TRUE,  StatusCode |-> 0,        decodes |-> FALSE, data |-> data],
      [err |-> FALSE, StatusCode |-> 500,      decodes |-> TRUE,  data |-> data],
      [err |-> FALSE, StatusCode |-> StatusOK, decodes |-> FALSE, data |-> data],
      [err |-> FALSE, StatusCode |-> StatusOK, decodes |-> TRUE,  data |-> data] }

\* cpuData.Total, memData.Percent, gpuData.Proc
CPUTotals == {42004}
MemPercents == {55018}
GPUProcs == {12345}
\* fsData: the Percent of each filesystem; tempData.Composite: the Value
\* of each sensor
FSLists == {<<>>, <<61003, 7000>>}
CompositeLists == {<<>>, <<48500>>}

CPUResponses == UNION {HTTPAnswers(v) : v \in CPUTotals}
MemResponses == UNION {HTTPAnswers(v) : v \in MemPercents}
FSResponses == UNION {HTTPAnswers(l) : l \in FSLists}
GPUResponses == UNION {HTTPAnswers(v) : v \in GPUProcs}
TempResponses == UNION {HTTPAnswers(l) : l \in CompositeLists}

fetchCPUUsage(resp) ==
    IF resp.err THEN <<FALSE, 0>>
    ELSE IF resp.StatusCode # StatusOK THEN <<FALSE, 0>>
    ELSE IF ~resp.decodes THEN <<FALSE, 0>>
    ELSE <<TRUE, resp.data>>

fetchMemoryUsage(resp) ==
    IF resp.err THEN <<FALSE, 0>>
    ELSE IF resp.StatusCode # StatusOK THEN <<FALSE, 0>>
    ELSE IF ~resp.decodes THEN <<FALSE, 0>>
    ELSE <<TRUE, resp.data>>

\* fetchDiskUsage reporting a failure for an empty filesystem list
fetchDiskUsage_EmptyFails(resp) ==
    IF resp.err THEN <<FALSE, 0>>
    ELSE IF resp.StatusCode # StatusOK THEN <<FALSE, 0>>
    ELSE IF ~resp.decodes THEN <<FALSE, 0>>
    ELSE IF Len(resp.data) > 0 THEN <<TRUE, resp.data[1]>>
    ELSE <<FALSE, 0>>

fetchDiskUsage(resp) ==
    IF resp.err THEN <<FALSE, 0>>
    ELSE IF resp.StatusCode # StatusOK THEN <<FALSE, 0>>
    ELSE IF ~resp.decodes THEN <<FALSE, 0>>
    ELSE IF Len(resp.data) > 0 THEN <<TRUE, resp.data[1]>>
    ELSE <<TRUE, 0>>

fetchGPUUsage(resp) ==
    IF resp.err THEN <<TRUE, 0>>
    ELSE IF resp.StatusCode # StatusOK THEN <<TRUE, 0>>
    ELSE IF ~resp.decodes THEN <<TRUE, 0>>
    ELSE <<TRUE, resp.data>>

fetchTemperature(resp) ==
    IF resp.err THEN <<TRUE, 0>>
    ELSE IF resp.StatusCode # StatusOK THEN <<TRUE, 0>>
    ELSE IF ~resp.decodes THEN <<TRUE, 0>>
    ELSE IF Len(resp.data) > 0 THEN <<TRUE, resp.data[1]>>
    ELSE <<TRUE, 0>>

Quote == "\""

RECURSIVE TrimLeft(_, _)
TrimLeft(s, c) == IF Len(s) > 0 /\ s[1] = c THEN TrimLeft(Tail(s), c) ELSE s

RECURSIVE TrimRight(_, _)
TrimRight(s, c) ==
    IF Len(s) > 0 /\ s[Len(s)] = c THEN TrimRight(SubSeq(s, 1, Len(s) - 1), c) ELSE s

\* strings.Trim(s, cutset) for a cutset of one character
Trim(s, c) == TrimRight(TrimLeft(s, c), c)

\* "0:05:10" and "3 days, 3:52:36"
UptimeShort == <<"0", ":", "0", "5", ":", "1", "0">>
UptimeDays ==
    <<"3", " ", "d", "a", "y", "s", ",", " ", "3", ":", "5", "2", ":", "3", "6">>
UptimeGarbage == <<"u", "p">>

\* bodies of the uptime endpoint: the bytes read, whether they unmarshal
\* into models.UptimeResponse, and the Value field they then give
UptimeBodies ==
    { [raw |-> <<Quote>> \o UptimeShort \o <<Quote>>, isObject |-> FALSE, Value |-> EmptyStr],
      [raw |-> <<"{", Quote, "v", "a", "l", "u", "e", Quote, ":", Quote>> \o UptimeDays
                \o <<Quote, "}">>,
       isObject |-> TRUE, Value |-> UptimeDays],
      [raw |-> UptimeGarbage, isObject |-> FALSE, Value |-> EmptyStr] }

\* answers of the uptime endpoint; readErr is a failing io.ReadAll
UptimeResponses ==
    { [err |-> TRUE,  StatusCode |-> 0,        readErr |-> FALSE, body |-> b] : b \in UptimeBodies }
    \cup { [err |-> FALSE, StatusCode |-> 500, readErr |-> FALSE, body |-> b] : b \in UptimeBodies }
    \cup { [err |-> FALSE, StatusCode |-> StatusOK, readErr |-> TRUE, body |-> b] : b \in UptimeBodies }
    \cup { [err |-> FALSE, StatusCode |-> StatusOK, readErr |-> FALSE, body |-> b] : b \in UptimeBodies }

\* time.Now() during the cycles: 28 June 17:45:00
Nows == {178 * SecondsPerDay + 17 * SecondsPerHour + 45 * SecondsPerMinute}

fetchUptime(resp, now) ==
    IF resp.err \/ resp.StatusCode # StatusOK THEN EmptyStr
    ELSE IF resp.readErr THEN EmptyStr
    ELSE IF resp.body.isObject /\ resp.body.Value # EmptyStr
         THEN formatUptime(resp.body.Value, now)
         ELSE formatUptime(Trim(resp.body.raw, Quote), now)

(* --------------------- collaborators' call records --------------------- *)

\* fmt.Sprintf("%.2f", v): the hundredths printed for v thousandths
\* (round half to even, as strconv does for exactly representable halves)
Sprintf2f(v) ==
    LET q == v \div 10
        r == v % 10
    IN  IF r > 5 \/ (r = 5 /\ q % 2 = 1) THEN q + 1 ELSE q

\* One entry of the log of calls made while one server is handled: the
\* function called, the server id, the online flag passed or returned, the
\* numbers and the string passed or returned, whether the collaborator
\* answered (a decoded 200 answer, a successful ExecContext, the detector's
\* result), and for a fetcher what the body decoded to.
Call(op, id, on, vals, text, ok) ==
    [op |-> op, id |-> id, online |-> on, vals |-> vals, text |-> text, ok |-> ok,
     data |-> <<>>]

\* a 200 answer whose body decodes
Answered(resp) == ~resp.err /\ resp.StatusCode = StatusOK /\ resp.decodes

\* the log entry of a metric fetcher that got resp and returned r
FetchCall(op, id, r, resp) ==
    [op |-> op, id |-> id, online |-> r[1], vals |-> <<r[2]>>, text |-> EmptyStr,
     ok |-> Answered(resp),
     data |-> IF ~Answered(resp) THEN <<>>
              ELSE IF op \in {"fetchDiskUsage", "fetchTemperature"} THEN resp.data
              ELSE <<resp.data>>]

\* updateServerStatus: the UPDATE it issues; ok is ExecContext's success
updateServerStatus(serverID, on, cpu, ram, disk, gpu, tmp, uptime, ok) ==
    Call("updateServerStatus", serverID, on, <<cpu, ram, disk, gpu, tmp>>, uptime, ok)

\* addServerHistoryEntry with the ram and disk arguments exchanged
addServerHistoryEntry_Exchanged(serverID, on, cpu, ram, disk, gpu, tmp, ok) ==
    Call("addServerHistoryEntry", serverID, on,
         <<Sprintf2f(cpu), Sprintf2f(disk), Sprintf2f(ram), Sprintf2f(gpu), Sprintf2f(tmp)>>,
         EmptyStr, ok)

\* addServerHistoryEntry: the INSERT it issues
addServerHistoryEntry(serverID, on, cpu, ram, disk, gpu, tmp, ok) ==
    Call("addServerHistoryEntry", serverID, on,
         <<Sprintf2f(cpu), Sprintf2f(ram), Sprintf2f(disk), Sprintf2f(gpu), Sprintf2f(tmp)>>,
         EmptyStr, ok)

\* sendStatusChangeNotification with the two status words exchanged
sendStatusChangeNotification_Exchanged(server, on, template) ==
    LET status == IF on THEN OfflineWord ELSE OnlineWord
        message == ReplaceAll(ReplaceAll(template, NamePlaceholder, server.Name),
                              StatusPlaceholder, status)
    IN  Call("sendStatusChangeNotification", server.ID, on, <<>>, message, TRUE)

\* sendStatusChangeNotification: the message handed to SendNotifications
sendStatusChangeNotification(server, on, template) ==
    LET status == IF on THEN OnlineWord ELSE OfflineWord
        message == ReplaceAll(ReplaceAll(template, NamePlaceholder, server.Name),
                              StatusPlaceholder, status)
    IN  Call("sendStatusChangeNotification", server.ID, on, <<>>, message, TRUE)

\* shouldSendNotification that records a status only on the first check
shouldSendNotification_FirstOnly(ls, serverID, on) ==
    IF serverID \notin DOMAIN ls
    THEN [send |-> TRUE,
          lastStatus |-> [k \in DOMAIN ls \cup {serverID} |->
                              IF k = serverID THEN on ELSE ls[k]]]
    ELSE [send |-> ls[serverID] # on, lastStatus |-> ls]

\* shouldSendNotification that starts a fresh map when it records a status
shouldSendNotification_FreshMap(ls, serverID, on) ==
    IF serverID \notin DOMAIN ls \/ ls[serverID] # on
    THEN [send |-> TRUE, lastStatus |-> [k \in {serverID} |-> on]]
    ELSE [send |-> FALSE, lastStatus |-> ls]

\* shouldSendNotification that records the status and always says yes
shouldSendNotification_Always(ls, serverID, on) ==
    [send |-> TRUE,
     lastStatus |-> [k \in DOMAIN ls \cup {serverID} |->
                         IF k = serverID THEN on ELSE ls[k]]]

\* shouldSendNotification on the map ls: the result and the map afterwards
shouldSendNotification(ls, serverID, on) ==
    IF serverID \notin DOMAIN ls \/ ls[serverID] # on
    THEN [send |-> TRUE,
          lastStatus |-> [k \in DOMAIN ls \cup {serverID} |->
                              IF k = serverID THEN on ELSE ls[k]]]
    ELSE [send |-> FALSE, lastStatus |-> ls]

(* ------------------------------- state --------------------------------- *)

VARIABLES
    lastStatus,            \* notificationState.lastStatus (map[int]bool)
    pc,                    \* position of the running MonitorServers call
    firstCycle,            \* no call of MonitorServers has returned yet
    notificationTemplate,  \* MonitorServers' local of that name
    servers,               \* the slice handed to MonitorServers
    i,                     \* index of the range loop (1-based)
    server,                \* the loop variable
    online, cpuUsage, ramUsage, diskUsage, gpuUsage, temp, uptimeStr,
    calls,                 \* calls made so far for the server being handled
    statusWrites,          \* per server id: UPDATEs issued in this cycle
    historyWrites,         \* per server id: INSERTs issued in this cycle
    scanErr,               \* MonitorServers' err of line 29 is not nil
    mu,                    \* goroutine holding notificationState's lock (0: free)
    caller,                \* per goroutine: its call of shouldSendNotification
    roundStart,            \* lastStatus when the goroutines' calls were made
    fmtCall,               \* the last call of formatUptime made on its own
    lastSent               \* per server id: status of the last notification sent

locals == <<online, cpuUsage, ramUsage, diskUsage, gpuUsage, temp, uptimeStr>>

detector == <<mu, caller, roundStart>>

vars == <<lastStatus, pc, firstCycle, notificationTemplate, servers, i, server,
          online, cpuUsage, ramUsage, diskUsage, gpuUsage, temp, uptimeStr,
          calls, statusWrites, historyWrites, scanErr, mu, caller, roundStart,
          fmtCall, lastSent>>

\* (Monitoring, MonitoringURL.Valid, Online) of the servers handed in
ServerConfigs ==
    { <<TRUE, TRUE, TRUE>>, <<TRUE, TRUE, FALSE>>,
      <<FALSE, TRUE, FALSE>>, <<TRUE, FALSE, TRUE>> }

MakeServer(id, cfg) ==
    [ID |-> id, Name |-> ServerName(id), Monitoring |-> cfg[1],
     MonitoringURLValid |-> cfg[2], Online |-> cfg[3]]

\* the slices MonitorServers is called with: one row per server id
ServerLists ==
    { [k \in ServerIDs |-> MakeServer(k, c[k])] : c \in [ServerIDs -> ServerConfigs] }

NoServer == MakeServer(0, <<FALSE, FALSE, FALSE>>)

NoWrites == [k \in ServerIDs |-> 0]

\* the goroutines that call shouldSendNotification at the same time
Callers == 1..NumCallers

\* nobody holds notificationState's lock
Unlocked == 0

\* a goroutine that is not inside shouldSendNotification
IdleCaller ==
    [pc |-> "idle", serverID |-> 0, online |-> FALSE,
     lastStatus |-> FALSE, exists |-> FALSE, result |-> FALSE]

\* formatUptime has not been called on its own
NoFmtCall == [made |-> FALSE]

Init ==
    /\ lastStatus = <<>>
    /\ pc = "idle"
    /\ firstCycle = TRUE
    /\ notificationTemplate = EmptyStr
    /\ servers = <<>>
    /\ i = 0
    /\ server = NoServer
    /\ online = TRUE
    /\ cpuUsage = 0 /\ ramUsage = 0 /\ diskUsage = 0 /\ gpuUsage = 0 /\ temp = 0
    /\ uptimeStr = EmptyStr
    /\ calls = <<>>
    /\ statusWrites = NoWrites
    /\ historyWrites = NoWrites
    /\ scanErr = FALSE
    /\ mu = Unlocked
    /\ caller = [p \in Callers |-> IdleCaller]
    /\ roundStart = <<>>
    /\ fmtCall = NoFmtCall
    /\ lastSent = <<>>

(* ------------------------------ actions -------------------------------- *)

\* lines 27-29: a call of MonitorServers starts and reads the template;
\* a failing Scan leaves the declared empty string
MonitorServersBegin ==
    /\ pc \in {"idle", "done"}
    /\ \E rd \in SettingsReads, list \in ServerLists :
         /\ notificationTemplate' = IF rd.err THEN EmptyStr ELSE rd.text
         /\ scanErr' = rd.err
         /\ servers' = list
    /\ firstCycle' = (pc = "idle")
    /\ i' = 1
    /\ pc' = "template"
    /\ calls' = <<>>
    /\ statusWrites' = NoWrites
    /\ historyWrites' = NoWrites
    /\ UNCHANGED <<lastStatus, server, locals>>
    /\ UNCHANGED <<detector, fmtCall, lastSent>>

\* UseDefaultTemplate falling back only when the read failed
UseDefaultTemplate_ErrOnly ==
    /\ pc = "template"
    /\ notificationTemplate' =
           IF scanErr THEN DefaultTemplate ELSE notificationTemplate
    /\ scanErr' = FALSE
    /\ pc' = "range"
    /\ UNCHANGED <<lastStatus, firstCycle, servers, i, server, locals, calls,
                   statusWrites, historyWrites>>
    /\ UNCHANGED <<detector, fmtCall, lastSent>>

\* lines 30-32: the default template replaces a failed read or an empty
\* text; err is not read after line 30
UseDefaultTemplate ==
    /\ pc = "template"
    /\ notificationTemplate' =
           IF scanErr \/ notificationTemplate = EmptyStr
           THEN DefaultTemplate ELSE notificationTemplate
    /\ scanErr' = FALSE
    /\ pc' = "range"
    /\ UNCHANGED <<lastStatus, firstCycle, servers, i, server, locals, calls,
                   statusWrites, historyWrites>>
    /\ UNCHANGED <<detector, fmtCall, lastSent>>

\* the skip condition with "and" in place of "or"
Skipped_Both(srv) == ~srv.Monitoring /\ ~srv.MonitoringURLValid

\* line 35: the condition under which a server is passed over
Skipped(srv) == ~srv.Monitoring \/ ~srv.MonitoringURLValid

\* RangeServers passing over the server after a skipped one as well
RangeServers_SkipTwo ==
    /\ pc = "range"
    /\ IF i > Len(servers)
       THEN /\ pc' = "done"
            /\ server' = NoServer
            /\ calls' = <<>>
            /\ online' = TRUE
            /\ cpuUsage' = 0 /\ ramUsage' = 0 /\ diskUsage' = 0
            /\ gpuUsage' = 0 /\ temp' = 0
            /\ uptimeStr' = EmptyStr
            /\ UNCHANGED i
       ELSE /\ server' = servers[i]
            /\ calls' = <<>>
            /\ IF Skipped(servers[i])
               THEN /\ i' = i + 2
                    /\ pc' = "range"
                    /\ UNCHANGED locals
               ELSE /\ i' = i
                    /\ pc' = "cpu"
                    /\ online' = TRUE
                    /\ cpuUsage' = 0 /\ ramUsage' = 0 /\ diskUsage' = 0
                    /\ gpuUsage' = 0 /\ temp' = 0
                    /\ uptimeStr' = EmptyStr
    /\ UNCHANGED <<lastStatus, firstCycle, notificationTemplate, servers,
                   statusWrites, historyWrites>>
    /\ UNCHANGED <<scanErr, detector, fmtCall, lastSent>>

\* lines 34-45: the range loop takes the next server, or the call returns
RangeServers ==
    /\ pc = "range"
    /\ IF i > Len(servers)
       THEN /\ pc' = "done"
            /\ server' = NoServer
            /\ calls' = <<>>
            /\ online' = TRUE
            /\ cpuUsage' = 0 /\ ramUsage' = 0 /\ diskUsage' = 0
            /\ gpuUsage' = 0 /\ temp' = 0
            /\ uptimeStr' = EmptyStr
            /\ UNCHANGED i
       ELSE /\ server' = servers[i]
            /\ calls' = <<>>
            /\ IF Skipped(servers[i])
               THEN /\ i' = i + 1
                    /\ pc' = "range"
                    /\ UNCHANGED locals
               ELSE /\ i' = i
                    /\ pc' = "cpu"
                    /\ online' = TRUE
                    /\ cpuUsage' = 0 /\ ramUsage' = 0 /\ diskUsage' = 0
                    /\ gpuUsage' = 0 /\ temp' = 0
                    /\ uptimeStr' = EmptyStr
    /\ UNCHANGED <<lastStatus, firstCycle, notificationTemplate, servers,
                   statusWrites, historyWrites>>
    /\ UNCHANGED <<scanErr, detector, fmtCall, lastSent>>

\* line 48
GetCPUUsage ==
    /\ pc = "cpu"
    /\ \E resp \in CPUResponses :
         LET r == fetchCPUUsage(resp) IN
         /\ online' = r[1]
         /\ cpuUsage' = r[2]
         /\ calls' = Append(calls, FetchCall("fetchCPUUsage", server.ID, r, resp))
         /\ pc' = IF r[1] THEN "uptime" ELSE "offlineUpdate"
    /\ UNCHANGED <<lastStatus, firstCycle, notificationTemplate, servers, i, server,
                   ramUsage, diskUsage, gpuUsage, temp, uptimeStr,
                   statusWrites, historyWrites>>
    /\ UNCHANGED <<scanErr, detector, fmtCall, lastSent>>

\* GetUptime taking the server offline when no uptime string came back
GetUptime_Required ==
    /\ pc = "uptime"
    /\ \E resp \in UptimeResponses, now \in Nows :
         LET u == fetchUptime(resp, now) IN
         /\ uptimeStr' = u
         /\ calls' = Append(calls, Call("fetchUptime", server.ID, TRUE, <<>>, u,
                                 ~resp.err /\ resp.StatusCode = StatusOK
                                 /\ ~resp.readErr))
         /\ online' = (u # EmptyStr)
         /\ pc' = IF u # EmptyStr THEN "mem" ELSE "offlineUpdate"
    /\ UNCHANGED <<lastStatus, firstCycle, notificationTemplate, servers, i, server,
                   cpuUsage, ramUsage, diskUsage, gpuUsage, temp,
                   statusWrites, historyWrites>>
    /\ UNCHANGED <<scanErr, detector, fmtCall, lastSent>>

\* line 59; the call is logged with its result and with whether the
\* endpoint answered 200 with a readable body
GetUptime ==
    /\ pc = "uptime"
    /\ \E resp \in UptimeResponses, now \in Nows :
         LET u == fetchUptime(resp, now) IN
         /\ uptimeStr' = u
         /\ calls' = Append(calls, Call("fetchUptime", server.ID, TRUE, <<>>, u,
                                 ~resp.err /\ resp.StatusCode = StatusOK
                                 /\ ~resp.readErr))
    /\ pc' = "mem"
    /\ UNCHANGED <<lastStatus, firstCycle, notificationTemplate, servers, i, server,
                   online, cpuUsage, ramUsage, diskUsage, gpuUsage, temp,
                   statusWrites, historyWrites>>
    /\ UNCHANGED <<scanErr, detector, fmtCall, lastSent>>

\* GetMemoryUsage asking a second time when the first fetch fails
GetMemoryUsage_Retry ==
    /\ pc = "mem"
    /\ \E resp \in MemResponses :
         LET r == fetchMemoryUsage(resp) IN
         /\ online' = IF r[1] THEN online ELSE FALSE
         /\ ramUsage' = IF r[1] THEN r[2] ELSE ramUsage
         /\ calls' = Append(calls, FetchCall("fetchMemoryUsage", server.ID, r, resp))
         /\ pc' = IF r[1] THEN "disk"
                  ELSE IF online THEN "mem" ELSE "offlineUpdate"
    /\ UNCHANGED <<lastStatus, firstCycle, notificationTemplate, servers, i, server,
                   cpuUsage, diskUsage, gpuUsage, temp, uptimeStr,
                   statusWrites, historyWrites>>
    /\ UNCHANGED <<scanErr, detector, fmtCall, lastSent>>

\* lines 62-64 and 72
GetMemoryUsage ==
    /\ pc = "mem"
    /\ \E resp \in MemResponses :
         LET r == fetchMemoryUsage(resp) IN
         /\ online' = IF r[1] THEN online ELSE FALSE
         /\ ramUsage' = IF r[1] THEN r[2] ELSE ramUsage
         /\ calls' = Append(calls, FetchCall("fetchMemoryUsage", server.ID, r, resp))
         /\ pc' = IF r[1] THEN "disk" ELSE "offlineUpdate"
    /\ UNCHANGED <<lastStatus, firstCycle, notificationTemplate, servers, i, server,
                   cpuUsage, diskUsage, gpuUsage, temp, uptimeStr,
                   statusWrites, historyWrites>>
    /\ UNCHANGED <<scanErr, detector, fmtCall, lastSent>>

\* GetDiskUsage without the offline block and its continue
GetDiskUsage_NoContinue ==
    /\ pc = "disk"
    /\ \E resp \in FSResponses :
         LET r == fetchDiskUsage(resp) IN
         /\ online' = IF r[1] THEN online ELSE FALSE
         /\ diskUsage' = r[2]
         /\ calls' = Append(calls, FetchCall("fetchDiskUsage", server.ID, r, resp))
    /\ pc' = "gpu"
    /\ UNCHANGED <<lastStatus, firstCycle, notificationTemplate, servers, i, server,
                   cpuUsage, ramUsage, gpuUsage, temp, uptimeStr,
                   statusWrites, historyWrites>>
    /\ UNCHANGED <<scanErr, detector, fmtCall, lastSent>>

\* lines 75-77 and 85
GetDiskUsage ==
    /\ pc = "disk"
    /\ \E resp \in FSResponses :
         LET r == fetchDiskUsage(resp) IN
         /\ online' = IF r[1] THEN online ELSE FALSE
         /\ diskUsage' = IF r[1] THEN r[2] ELSE diskUsage
         /\ calls' = Append(calls, FetchCall("fetchDiskUsage", server.ID, r, resp))
         /\ pc' = IF r[1] THEN "gpu" ELSE "offlineUpdate"
    /\ UNCHANGED <<lastStatus, firstCycle, notificationTemplate, servers, i, server,
                   cpuUsage, ramUsage, gpuUsage, temp, uptimeStr,
                   statusWrites, historyWrites>>
    /\ UNCHANGED <<scanErr, detector, fmtCall, lastSent>>

\* GetGPUUsage treating the GPU like a required metric
GetGPUUsage_Required ==
    /\ pc = "gpu"
    /\ \E resp \in GPUResponses :
         LET r == fetchGPUUsage(resp) IN
         /\ gpuUsage' = r[2]
         /\ online' = Answered(resp)
         /\ calls' = Append(calls, FetchCall("fetchGPUUsage", server.ID, r, resp))
         /\ pc' = IF Answered(resp) THEN "temp" ELSE "offlineUpdate"
    /\ UNCHANGED <<lastStatus, firstCycle, notificationTemplate, servers, i, server,
                   cpuUsage, ramUsage, diskUsage, temp, uptimeStr,
                   statusWrites, historyWrites>>
    /\ UNCHANGED <<scanErr, detector, fmtCall, lastSent>>

\* lines 88-89
GetGPUUsage ==
    /\ pc = "gpu"
    /\ \E resp \in GPUResponses :
         LET r == fetchGPUUsage(resp) IN
         /\ gpuUsage' = r[2]
         /\ calls' = Append(calls, FetchCall("fetchGPUUsage", server.ID, r, resp))
    /\ pc' = "temp"
    /\ UNCHANGED <<lastStatus, firstCycle, notificationTemplate, servers, i, server,
                   online, cpuUsage, ramUsage, diskUsage, temp, uptimeStr,
                   statusWrites, historyWrites>>
    /\ UNCHANGED <<scanErr, detector, fmtCall, lastSent>>

\* lines 92-93
GetTemperature ==
    /\ pc = "temp"
    /\ \E resp \in TempResponses :
         LET r == fetchTemperature(resp) IN
         /\ temp' = r[2]
         /\ calls' = Append(calls, FetchCall("fetchTemperature", server.ID, r, resp))
    /\ pc' = "onlineNotify"
    /\ UNCHANGED <<lastStatus, firstCycle, notificationTemplate, servers, i, server,
                   online, cpuUsage, ramUsage, diskUsage, gpuUsage, uptimeStr,
                   statusWrites, historyWrites>>
    /\ UNCHANGED <<scanErr, detector, fmtCall, lastSent>>

\* lines 52, 67, 80, 97: the statuses last notified, after a site that
\* sends (send) or does not send a notification for serverID
Dispatched(sent, send, serverID, on) ==
    IF send
    THEN [k \in DOMAIN sent \cup {serverID} |-> IF k = serverID THEN on ELSE sent[k]]
    ELSE sent

\* NotifyCalls handing the row's flag to sendStatusChangeNotification
NotifyCalls_RowFlag(r) ==
    <<Call("shouldSendNotification", server.ID, online, <<>>, EmptyStr, r.send)>>
    \o (IF r.send
        THEN <<sendStatusChangeNotification(server, server.Online, notificationTemplate)>>
        ELSE <<>>)

\* the calls of lines 51-53 (66-68, 79-81, and 96-98 behind its guard):
\* the detector is asked and, if it says so, the notification goes out
NotifyCalls(r) ==
    <<Call("shouldSendNotification", server.ID, online, <<>>, EmptyStr, r.send)>>
    \o (IF r.send
        THEN <<sendStatusChangeNotification(server, online, notificationTemplate)>>
        ELSE <<>>)

\* OfflineUpdate writing the locals instead of the zero literals
OfflineUpdate_Locals ==
    /\ pc = "offlineUpdate"
    /\ \E ok \in BOOLEAN :
         calls' = Append(calls, updateServerStatus(server.ID, FALSE, cpuUsage, ramUsage,
                                                   diskUsage, gpuUsage, temp, uptimeStr, ok))
    /\ statusWrites' = [statusWrites EXCEPT ![server.ID] = @ + 1]
    /\ pc' = "offlineNotify"
    /\ UNCHANGED <<lastStatus, firstCycle, notificationTemplate, servers, i, server,
                   locals, historyWrites>>
    /\ UNCHANGED <<scanErr, detector, fmtCall, lastSent>>

\* OfflineUpdate going straight on to the history entry
OfflineUpdate_NoNotify ==
    /\ pc = "offlineUpdate"
    /\ \E ok \in BOOLEAN :
         calls' = Append(calls, updateServerStatus(server.ID, FALSE, 0, 0, 0, 0, 0, EmptyStr, ok))
    /\ statusWrites' = [statusWrites EXCEPT ![server.ID] = @ + 1]
    /\ pc' = "offlineHistory"
    /\ UNCHANGED <<lastStatus, firstCycle, notificationTemplate, servers, i, server,
                   locals, historyWrites>>
    /\ UNCHANGED <<scanErr, detector, fmtCall, lastSent>>

\* lines 50, 65, 78
OfflineUpdate ==
    /\ pc = "offlineUpdate"
    /\ \E ok \in BOOLEAN :
         calls' = Append(calls, updateServerStatus(server.ID, FALSE, 0, 0, 0, 0, 0, EmptyStr, ok))
    /\ statusWrites' = [statusWrites EXCEPT ![server.ID] = @ + 1]
    /\ pc' = "offlineNotify"
    /\ UNCHANGED <<lastStatus, firstCycle, notificationTemplate, servers, i, server,
                   locals, historyWrites>>
    /\ UNCHANGED <<scanErr, detector, fmtCall, lastSent>>

\* OfflineNotify asking the detector and sending nothing
OfflineNotify_Quiet ==
    /\ pc = "offlineNotify"
    /\ LET r == shouldSendNotification(lastStatus, server.ID, online) IN
         /\ lastStatus' = r.lastStatus
         /\ calls' = Append(calls, Call("shouldSendNotification", server.ID, online,
                                        <<>>, EmptyStr, r.send))
         /\ lastSent' = lastSent
    /\ pc' = "offlineHistory"
    /\ UNCHANGED <<firstCycle, notificationTemplate, servers, i, server,
                   locals, statusWrites, historyWrites>>
    /\ UNCHANGED <<scanErr, detector, fmtCall>>

\* lines 51-53, 66-68, 79-81
OfflineNotify ==
    /\ pc = "offlineNotify"
    /\ LET r == shouldSendNotification(lastStatus, server.ID, online) IN
         /\ lastStatus' = r.lastStatus
         /\ calls' = calls \o NotifyCalls(r)
         /\ lastSent' = Dispatched(lastSent, r.send, server.ID, online)
    /\ pc' = "offlineHistory"
    /\ UNCHANGED <<firstCycle, notificationTemplate, servers, i, server,
                   locals, statusWrites, historyWrites>>
    /\ UNCHANGED <<scanErr, detector, fmtCall>>

\* OfflineHistory returning from MonitorServers when the INSERT fails
OfflineHistory_Abort ==
    /\ pc = "offlineHistory"
    /\ \E ok \in BOOLEAN :
         /\ calls' = Append(calls, addServerHistoryEntry(server.ID, FALSE, 0, 0, 0, 0, 0, ok))
         /\ pc' = IF ok THEN "range" ELSE "done"
    /\ historyWrites' = [historyWrites EXCEPT ![server.ID] = @ + 1]
    /\ i' = i + 1
    /\ UNCHANGED <<lastStatus, firstCycle, notificationTemplate, servers, server,
                   locals, statusWrites>>
    /\ UNCHANGED <<scanErr, detector, fmtCall, lastSent>>

\* OfflineHistory without the continue: the loop body goes on
OfflineHistory_FallThrough ==
    /\ pc = "offlineHistory"
    /\ \E ok \in BOOLEAN :
         calls' = Append(calls, addServerHistoryEntry(server.ID, FALSE, 0, 0, 0, 0, 0, ok))
    /\ historyWrites' = [historyWrites EXCEPT ![server.ID] = @ + 1]
    /\ i' = i
    /\ pc' = "gpu"
    /\ UNCHANGED <<lastStatus, firstCycle, notificationTemplate, servers, server,
                   locals, statusWrites>>
    /\ UNCHANGED <<scanErr, detector, fmtCall, lastSent>>

\* lines 54-55, 69-70, 82-83
OfflineHistory ==
    /\ pc = "offlineHistory"
    /\ \E ok \in BOOLEAN :
         calls' = Append(calls, addServerHistoryEntry(server.ID, FALSE, 0, 0, 0, 0, 0, ok))
    /\ historyWrites' = [historyWrites EXCEPT ![server.ID] = @ + 1]
    /\ i' = i + 1
    /\ pc' = "range"
    /\ UNCHANGED <<lastStatus, firstCycle, notificationTemplate, servers, server,
                   locals, statusWrites>>
    /\ UNCHANGED <<scanErr, detector, fmtCall, lastSent>>

\* OnlineNotify asking the detector and sending nothing
OnlineNotify_Quiet ==
    /\ pc = "onlineNotify"
    /\ IF online # server.Online
       THEN LET r == shouldSendNotification(lastStatus, server.ID, online) IN
              /\ lastStatus' = r.lastStatus
              /\ calls' = Append(calls, Call("shouldSendNotification", server.ID, online,
                                             <<>>, EmptyStr, r.send))
              /\ lastSent' = lastSent
       ELSE UNCHANGED <<lastStatus, calls, lastSent>>
    /\ pc' = "onlineUpdate"
    /\ UNCHANGED <<firstCycle, notificationTemplate, servers, i, server,
                   locals, statusWrites, historyWrites>>
    /\ UNCHANGED <<scanErr, detector, fmtCall>>

\* OnlineNotify without the comparison with the row
OnlineNotify_Unguarded ==
    /\ pc = "onlineNotify"
    /\ LET r == shouldSendNotification(lastStatus, server.ID, online) IN
         /\ lastStatus' = r.lastStatus
         /\ calls' = calls \o NotifyCalls(r)
         /\ lastSent' = Dispatched(lastSent, r.send, server.ID, online)
    /\ pc' = "onlineUpdate"
    /\ UNCHANGED <<firstCycle, notificationTemplate, servers, i, server,
                   locals, statusWrites, historyWrites>>
    /\ UNCHANGED <<scanErr, detector, fmtCall>>

\* lines 96-98
OnlineNotify ==
    /\ pc = "onlineNotify"
    /\ IF online # server.Online
       THEN LET r == shouldSendNotification(lastStatus, server.ID, online) IN
              /\ lastStatus' = r.lastStatus
              /\ calls' = calls \o NotifyCalls(r)
              /\ lastSent' = Dispatched(lastSent, r.send, server.ID, online)
       ELSE UNCHANGED <<lastStatus, calls, lastSent>>
    /\ pc' = "onlineUpdate"
    /\ UNCHANGED <<firstCycle, notificationTemplate, servers, i, server,
                   locals, statusWrites, historyWrites>>
    /\ UNCHANGED <<scanErr, detector, fmtCall>>

\* OnlineUpdate issuing the UPDATE again when it failed
OnlineUpdate_Retry ==
    /\ pc = "onlineUpdate"
    /\ \E ok \in BOOLEAN :
         LET u == updateServerStatus(server.ID, online, cpuUsage, ramUsage,
                                     diskUsage, gpuUsage, temp, uptimeStr, ok) IN
         /\ calls' = IF ok THEN Append(calls, u) ELSE calls \o <<u, u>>
         /\ statusWrites' = [statusWrites EXCEPT ![server.ID] = IF ok THEN @ + 1 ELSE @ + 2]
    /\ pc' = "onlineHistory"
    /\ UNCHANGED <<lastStatus, firstCycle, notificationTemplate, servers, i, server,
                   locals, historyWrites>>
    /\ UNCHANGED <<scanErr, detector, fmtCall, lastSent>>

\* line 101
OnlineUpdate ==
    /\ pc = "onlineUpdate"
    /\ \E ok \in BOOLEAN :
         calls' = Append(calls, updateServerStatus(server.ID, online, cpuUsage, ramUsage,
                                                   diskUsage, gpuUsage, temp, uptimeStr, ok))
    /\ statusWrites' = [statusWrites EXCEPT ![server.ID] = @ + 1]
    /\ pc' = "onlineHistory"
    /\ UNCHANGED <<lastStatus, firstCycle, notificationTemplate, servers, i, server,
                   locals, historyWrites>>
    /\ UNCHANGED <<scanErr, detector, fmtCall, lastSent>>

\* lines 104-108
OnlineHistory ==
    /\ pc = "onlineHistory"
    /\ \E ok \in BOOLEAN :
         calls' = Append(calls, addServerHistoryEntry(server.ID, online, cpuUsage, ramUsage,
                                                      diskUsage, gpuUsage, temp, ok))
    /\ historyWrites' = [historyWrites EXCEPT ![server.ID] = @ + 1]
    /\ i' = i + 1
    /\ pc' = "range"
    /\ UNCHANGED <<lastStatus, firstCycle, notificationTemplate, servers, server,
                   locals, statusWrites>>
    /\ UNCHANGED <<scanErr, detector, fmtCall, lastSent>>

Next ==
    \/ MonitorServersBegin
    \/ UseDefaultTemplate
    \/ RangeServers
    \/ GetCPUUsage
    \/ GetUptime
    \/ GetMemoryUsage
    \/ GetDiskUsage
    \/ GetGPUUsage
    \/ GetTemperature
    \/ OfflineUpdate
    \/ OfflineNotify
    \/ OfflineHistory
    \/ OnlineNotify
    \/ OnlineUpdate
    \/ OnlineHistory

Spec == Init /\ [][Next]_vars

(* ------------------- one invocation of MonitorServers ------------------ *)

\* lines 27-109 run once: MonitorServers is called, and every step of the
\* call is taken as soon as the call it waits for has returned
NextOnePass ==
    \/ pc = "idle" /\ MonitorServersBegin
    \/ UseDefaultTemplate
    \/ RangeServers
    \/ GetCPUUsage
    \/ GetUptime
    \/ GetMemoryUsage
    \/ GetDiskUsage
    \/ GetGPUUsage
    \/ GetTemperature
    \/ OfflineUpdate
    \/ OfflineNotify
    \/ OfflineHistory
    \/ OnlineNotify
    \/ OnlineUpdate
    \/ OnlineHistory

SpecOnePass == Init /\ [][NextOnePass]_vars /\ WF_vars(NextOnePass)

(* ------- cycles fed with the rows that the previous cycle wrote -------- *)

\* lines 27-29 when the list handed to a call is read from the rows as the
\* call before left them: the first call gets any list, a later call the
\* list kept in servers, in which the UPDATEs of the call before are seen
MonitorServersBeginReloaded ==
    /\ pc \in {"idle", "done"}
    /\ \E rd \in SettingsReads,
          list \in (IF pc = "idle" THEN ServerLists ELSE {servers}) :
         /\ notificationTemplate' = IF rd.err THEN EmptyStr ELSE rd.text
         /\ scanErr' = rd.err
         /\ servers' = list
    /\ firstCycle' = (pc = "idle")
    /\ i' = 1
    /\ pc' = "template"
    /\ calls' = <<>>
    /\ statusWrites' = NoWrites
    /\ historyWrites' = NoWrites
    /\ UNCHANGED <<lastStatus, server, locals>>
    /\ UNCHANGED <<detector, fmtCall, lastSent>>

\* lines 50, 65, 78 with an ExecContext that succeeds: the server's row is
\* now offline.  The running call works on its copy `server` of the row
\* (line 34), so that the row is kept in servers[i] for the next call.
OfflineUpdateStored ==
    /\ pc = "offlineUpdate"
    /\ calls' = Append(calls, updateServerStatus(server.ID, FALSE, 0, 0, 0, 0, 0,
                                                 EmptyStr, TRUE))
    /\ servers' = [servers EXCEPT ![i].Online = FALSE]
    /\ statusWrites' = [statusWrites EXCEPT ![server.ID] = @ + 1]
    /\ pc' = "offlineNotify"
    /\ UNCHANGED <<lastStatus, firstCycle, notificationTemplate, i, server,
                   locals, historyWrites>>
    /\ UNCHANGED <<scanErr, detector, fmtCall, lastSent>>

\* line 101 with an ExecContext that succeeds: the row takes `online`
OnlineUpdateStored ==
    /\ pc = "onlineUpdate"
    /\ calls' = Append(calls, updateServerStatus(server.ID, online, cpuUsage, ramUsage,
                                                 diskUsage, gpuUsage, temp, uptimeStr, TRUE))
    /\ servers' = [servers EXCEPT ![i].Online = online]
    /\ statusWrites' = [statusWrites EXCEPT ![server.ID] = @ + 1]
    /\ pc' = "onlineHistory"
    /\ UNCHANGED <<lastStatus, firstCycle, notificationTemplate, i, server,
                   locals, historyWrites>>
    /\ UNCHANGED <<scanErr, detector, fmtCall, lastSent>>

NextStored ==
    \/ MonitorServersBeginReloaded
    \/ UseDefaultTemplate
    \/ RangeServers
    \/ GetCPUUsage
    \/ GetUptime
    \/ GetMemoryUsage
    \/ GetDiskUsage
    \/ GetGPUUsage
    \/ GetTemperature
    \/ OfflineUpdateStored
    \/ OfflineNotify
    \/ OfflineHistory
    \/ OnlineNotify
    \/ OnlineUpdateStored
    \/ OnlineHistory

SpecStored == Init /\ [][NextStored]_vars

\* shouldSendNotification driven on its own by an arbitrary caller: calls
\* then holds every call made since the process started
ShouldSendNotificationCall ==
    /\ pc = "idle"
    /\ Len(calls) < MaxCalls
    /\ \E id \in ServerIDs, on \in BOOLEAN :
         LET r == shouldSendNotification(lastStatus, id, on) IN
         /\ lastStatus' = r.lastStatus
         /\ calls' = Append(calls, Call("shouldSendNotification", id, on, <<>>, EmptyStr, r.send))
    /\ UNCHANGED <<pc, firstCycle, notificationTemplate, servers, i, server, locals,
                   statusWrites, historyWrites>>
    /\ UNCHANGED <<scanErr, detector, fmtCall, lastSent>>

SpecDetector == Init /\ [][ShouldSendNotificationCall]_vars

(* ---------- shouldSendNotification called by several goroutines -------- *)

monitor == <<pc, firstCycle, notificationTemplate, servers, i, server, locals,
             calls, statusWrites, historyWrites, scanErr, lastSent>>

\* line 112: every goroutine calls shouldSendNotification with arguments of
\* its own; the calls of a round run concurrently, and the next round starts
\* when all of them have returned
InvokeAll ==
    /\ pc = "idle"
    /\ \A p \in Callers : caller[p].pc \in {"idle", "returned"}
    /\ \E args \in [Callers -> ServerIDs \X BOOLEAN] :
         caller' = [p \in Callers |->
                       [IdleCaller EXCEPT !.pc = "lock",
                                          !.serverID = args[p][1],
                                          !.online = args[p][2]]]
    /\ roundStart' = lastStatus
    /\ UNCHANGED <<lastStatus, mu, monitor, fmtCall>>

\* a Lock that lets a goroutine in while another one holds the lock
Lock_Shared(p) ==
    /\ caller[p].pc = "lock"
    /\ mu' = p
    /\ caller' = [caller EXCEPT ![p].pc = "read"]
    /\ UNCHANGED <<lastStatus, roundStart, monitor, fmtCall>>

\* line 113: notificationState.Lock() returns once nobody holds the lock
Lock(p) ==
    /\ caller[p].pc = "lock"
    /\ mu = Unlocked
    /\ mu' = p
    /\ caller' = [caller EXCEPT ![p].pc = "read"]
    /\ UNCHANGED <<lastStatus, roundStart, monitor, fmtCall>>

\* line 116: lastStatus, exists := notificationState.lastStatus[serverID]
ReadLastStatus(p) ==
    /\ caller[p].pc = "read"
    /\ LET id == caller[p].serverID IN
       caller' = [caller EXCEPT
                     ![p].pc = "check",
                     ![p].exists = (id \in DOMAIN lastStatus),
                     ![p].lastStatus = IF id \in DOMAIN lastStatus
                                       THEN lastStatus[id] ELSE FALSE]
    /\ UNCHANGED <<lastStatus, mu, roundStart, monitor, fmtCall>>

\* lines 119-124: record the status and return true if it is new or has
\* changed, return false otherwise
CheckAndSet(p) ==
    /\ caller[p].pc = "check"
    /\ LET c == caller[p] IN
       IF ~c.exists \/ c.lastStatus # c.online
       THEN /\ lastStatus' = [k \in DOMAIN lastStatus \cup {c.serverID} |->
                                 IF k = c.serverID THEN c.online ELSE lastStatus[k]]
            /\ caller' = [caller EXCEPT ![p].pc = "unlock", ![p].result = TRUE]
       ELSE /\ lastStatus' = lastStatus
            /\ caller' = [caller EXCEPT ![p].pc = "unlock", ![p].result = FALSE]
    /\ UNCHANGED <<mu, roundStart, monitor, fmtCall>>

\* line 114: the deferred Unlock runs and the call returns
Unlock(p) ==
    /\ caller[p].pc = "unlock"
    /\ mu' = Unlocked
    /\ caller' = [caller EXCEPT ![p].pc = "returned"]
    /\ UNCHANGED <<lastStatus, roundStart, monitor, fmtCall>>

NextConcurrent ==
    \/ InvokeAll
    \/ \E p \in Callers : Lock(p)
    \/ \E p \in Callers : ReadLastStatus(p)
    \/ \E p \in Callers : CheckAndSet(p)
    \/ \E p \in Callers : Unlock(p)

SpecConcurrent == Init /\ [][NextConcurrent]_vars

(* ------------- notification sites of concurrent sweeps ----------------- *)

\* lines 51, 66, 79, 96: sweeps running in goroutines of their own reach a
\* notification site each and call shouldSendNotification there
InvokeSites ==
    /\ pc = "idle"
    /\ \A p \in Callers : caller[p].pc \in {"idle", "left"}
    /\ \E args \in [Callers -> ServerIDs \X BOOLEAN] :
         caller' = [p \in Callers |->
                       [IdleCaller EXCEPT !.pc = "lock",
                                          !.serverID = args[p][1],
                                          !.online = args[p][2]]]
    /\ roundStart' = lastStatus
    /\ UNCHANGED <<lastStatus, mu, monitor, fmtCall>>

\* lines 52, 67, 80, 97: back from shouldSendNotification, the sweep calls
\* sendStatusChangeNotification if the result was true, and leaves the site
SendIfTold(p) ==
    /\ caller[p].pc = "returned"
    /\ lastSent' = Dispatched(lastSent, caller[p].result, caller[p].serverID,
                              caller[p].online)
    /\ caller' = [caller EXCEPT ![p].pc = "left"]
    /\ UNCHANGED <<lastStatus, mu, roundStart, fmtCall, pc, firstCycle,
                   notificationTemplate, servers, i, server, locals, calls,
                   statusWrites, historyWrites, scanErr>>

NextSites ==
    \/ InvokeSites
    \/ \E p \in Callers : Lock(p)
    \/ \E p \in Callers : ReadLastStatus(p)
    \/ \E p \in Callers : CheckAndSet(p)
    \/ \E p \in Callers : Unlock(p)
    \/ \E p \in Callers : SendIfTold(p)

SpecSites == Init /\ [][NextSites]_vars

(* ------------------- formatUptime called on its own -------------------- *)

\* largest day count of the well-formed uptime strings
MaxDays == 3

\* hours, minutes and seconds of the well-formed uptime strings
UptimeHours == {0, 3, 23}
UptimeMinutes == {0, 5, 52}
UptimeSeconds == {0, 36}

\* "H:MM:SS"
TimeText(h, m, s) == Itoa(h) \o <<":">> \o Pad2(m) \o <<":">> \o Pad2(s)

\* "<N> days" or "<N> day"
DaysText(n, plural) ==
    Itoa(n) \o (IF plural THEN <<" ", "d", "a", "y", "s">> ELSE <<" ", "d", "a", "y">>)

\* an uptime string that is not of the expected form, or one that is not
\* but is parsed all the same
OddInput(str, kind) ==
    [uptimeStr |-> str, kind |-> kind, days |-> 0, hours |-> 0, minutes |-> 0,
     seconds |-> 0]

\* the strings "<N> day(s), H:MM:SS" and "H:MM:SS" with the numbers they
\* were written from
WellFormedInputs ==
    { [uptimeStr |-> DaysText(n, pl) \o CommaSpace \o TimeText(h, m, s),
       kind |-> "wellFormed", days |-> n, hours |-> h, minutes |-> m, seconds |-> s] :
          n \in 0..MaxDays, pl \in BOOLEAN,
          h \in UptimeHours, m \in UptimeMinutes, s \in UptimeSeconds }
    \cup
    { [uptimeStr |-> TimeText(h, m, s),
       kind |-> "wellFormed", days |-> 0, hours |-> h, minutes |-> m, seconds |-> s] :
          h \in UptimeHours, m \in UptimeMinutes, s \in UptimeSeconds }

\* strings on which formatUptime's Split count or one of its Sscanf calls
\* fails

MalformedInputs ==
    { \* "1 day, 2 days, 3:52:36": three parts
      OddInput(<<"1", " ", "d", "a", "y", ",", " ", "2", " ", "d", "a",
                 "y", "s", ",", " ", "3", ":", "5", "2", ":", "3", "6">>,
               "malformed"),
      \* "3 days, 3:52:36, ": three parts, the last one empty
      OddInput(<<"3", " ", "d", "a", "y", "s", ",", " ", "3", ":", "5",
                 "2", ":", "3", "6", ",", " ">>,
               "malformed"),
      \* "up, 3:52:36": no integer in the first part
      OddInput(<<"u", "p", ",", " ", "3", ":", "5", "2", ":", "3", "6">>,
               "malformed"),
      \* "3 weeks, 0:05:10": an integer followed by another word
      OddInput(<<"3", " ", "w", "e", "e", "k", "s", ",", " ", "0", ":",
                 "0", "5", ":", "1", "0">>,
               "malformed"),
      \* "3days, 0:05:10": no space between the integer and the word
      OddInput(<<"3", "d", "a", "y", "s", ",", " ", "0", ":", "0", "5",
                 ":", "1", "0">>,
               "malformed"),
      \* ", 0:05:10": empty first part
      OddInput(<<",", " ", "0", ":", "0", "5", ":", "1", "0">>,
               "malformed"),
      \* "3_0 days, 1:00:00": an underscore in the digits
      OddInput(<<"3", "_", "0", " ", "d", "a", "y", "s", ",", " ", "1",
                 ":", "0", "0", ":", "0", "0">>,
               "malformed"),
      \* "3 days, 3:52": two integers in the time part
      OddInput(<<"3", " ", "d", "a", "y", "s", ",", " ", "3", ":", "5", "2">>,
               "malformed"),
      \* "3 days, ": empty time part
      OddInput(<<"3", " ", "d", "a", "y", "s", ",", " ">>,
               "malformed"),
      \* "3 days, 3.52.36": dots for colons
      OddInput(<<"3", " ", "d", "a", "y", "s", ",", " ", "3", ".", "5",
                 "2", ".", "3", "6">>,
               "malformed"),
      \* "1 day 3:52:36": no comma: one part that is no time
      OddInput(<<"1", " ", "d", "a", "y", " ", "3", ":", "5", "2", ":",
                 "3", "6">>,
               "malformed"),
      \* "3:52": two integers
      OddInput(<<"3", ":", "5", "2">>,
               "malformed"),
      \* "3:52:": the third integer is missing
      OddInput(<<"3", ":", "5", "2", ":">>,
               "malformed"),
      \* "a:b:c": no integers
      OddInput(<<"a", ":", "b", ":", "c">>,
               "malformed"),
      \* "12": one integer
      OddInput(<<"1", "2">>,
               "malformed"),
      \* "up": a word
      OddInput(<<"u", "p">>,
               "malformed"),
      \* "": the empty string
      OddInput(<<>>,
               "malformed") }

\* strings that are not of the expected form and pass every parse step
LenientInputs ==
    { \* "3 dayz, 1:00:00": "%d day" is matched and the z is left over
      OddInput(<<"3", " ", "d", "a", "y", "z", ",", " ", "1", ":", "0",
                 "0", ":", "0", "0">>,
               "lenient"),
      \* "3:52:36 up": text after the third integer is left over
      OddInput(<<"3", ":", "5", "2", ":", "3", "6", " ", "u", "p">>,
               "lenient"),
      \* " 3 days,  3:52:36": %d skips leading spaces
      OddInput(<<" ", "3", " ", "d", "a", "y", "s", ",", " ", " ", "3",
                 ":", "5", "2", ":", "3", "6">>,
               "lenient") }

UptimeInputs == WellFormedInputs \cup MalformedInputs \cup LenientInputs

\* time.Now() of the calls: 28 June 17:45:00 and 1 January 00:03:00
FmtNows == Nows \cup {3 * SecondsPerMinute}

\* lines 332-381: formatUptime is called with some string at some time
FormatUptimeCall ==
    /\ pc = "idle"
    /\ \E arg \in UptimeInputs, now \in FmtNows :
         fmtCall' = [made |-> TRUE, arg |-> arg, now |-> now,
                     result |-> formatUptime(arg.uptimeStr, now)]
    /\ UNCHANGED <<lastStatus, monitor, detector>>

SpecUptime == Init /\ [][FormatUptimeCall]_vars

(* ------------------------------ properties ----------------------------- *)

IsWrite(e) == e.op \in {"updateServerStatus", "addServerHistoryEntry"}

IsFetch(e) ==
    e.op \in {"fetchCPUUsage", "fetchUptime", "fetchMemoryUsage", "fetchDiskUsage",
              "fetchGPUUsage", "fetchTemperature"}

\* positions of the log holding a call of op
CallsOf(op) == {k \in 1..Len(calls) : calls[k].op = op}

\* the handling of a monitored server has just ended
HandledOne == pc = "range" /\ calls # <<>>

\* C1: every status update and every history append issued with
\* online=false carries cpuUsage, ramUsage, diskUsage, gpuUsage and
\* temperature 0, and the status update carries the empty uptime string,
\* also after CPU and uptime were fetched
C1_OfflineWritesAreZero ==
    \A k \in 1..Len(calls) :
        (IsWrite(calls[k]) /\ ~calls[k].online) =>
            /\ calls[k].vals = <<0, 0, 0, 0, 0>>
            /\ calls[k].text = EmptyStr

\* a server whose CPU (non-zero) and uptime (non-empty) were fetched and
\* whose later required fetch failed has been written offline twice
C1_Witness ==
    /\ HandledOne
    /\ \E k \in CallsOf("fetchCPUUsage") : calls[k].vals # <<0>>
    /\ \E k \in CallsOf("fetchUptime") : calls[k].text # EmptyStr
    /\ \E k \in CallsOf("updateServerStatus") : ~calls[k].online
    /\ \E k \in CallsOf("addServerHistoryEntry") : ~calls[k].online

\* C2: a call of shouldSendNotification returns true exactly when no
\* earlier call was made for that id or the latest earlier call for that id
\* passed the other boolean (first call true, repeated boolean false,
\* flipped boolean true)
C2_NotifyExactlyOnChange ==
    \A k \in CallsOf("shouldSendNotification") :
        LET earlier == {j \in CallsOf("shouldSendNotification") :
                            j < k /\ calls[j].id = calls[k].id}
            latest == CHOOSE j \in earlier : \A m \in earlier : m <= j
        IN  calls[k].ok = (earlier = {} \/ calls[latest].online # calls[k].online)

\* one id was asked with a boolean, the same boolean, then the flipped one
C2_Witness ==
    /\ pc = "idle"
    /\ Len(calls) >= 3
    /\ calls[1].id = calls[2].id /\ calls[2].id = calls[3].id
    /\ calls[1].online = calls[2].online /\ calls[3].online # calls[2].online
    /\ calls[1].ok /\ ~calls[2].ok /\ calls[3].ok

\* C3: in the first cycle after process start every monitored server that
\* is probed causes a notification, whether probed online or offline and
\* whatever Online flag its row carries
C3_FirstCycleNotifiesAll ==
    (firstCycle /\ HandledOne) => CallsOf("sendStatusChangeNotification") # {}

\* C4: for every probed server the detector is consulted, and whenever the
\* probed status differs from the recorded one (or none is recorded) a
\* notification with the probed status is dispatched in that cycle
C4_NotifiesEveryChange ==
    [][ (pc \in {"offlineNotify", "onlineNotify"}) =>
          LET new == (Len(calls) + 1)..Len(calls') IN
          /\ \E k \in new : /\ calls'[k].op = "shouldSendNotification"
                            /\ calls'[k].id = server.ID
          /\ (server.ID \notin DOMAIN lastStatus \/ lastStatus[server.ID] # online) =>
                \E k \in new : /\ calls'[k].op = "sendStatusChangeNotification"
                               /\ calls'[k].id = server.ID
                               /\ calls'[k].online = online ]_vars

\* C5: a cycle issues exactly one status update and exactly one history
\* append for every server with monitoring enabled and a monitoring URL,
\* online or offline, notified or not, and never repeats a failed write
C5_OneUpdateOneAppend ==
    /\ \A id \in ServerIDs : statusWrites[id] <= 1 /\ historyWrites[id] <= 1
    /\ \A k \in 1..Len(calls) : IsWrite(calls[k]) => calls[k].id = server.ID
    /\ HandledOne =>
          /\ Cardinality(CallsOf("updateServerStatus")) = 1
          /\ Cardinality(CallsOf("addServerHistoryEntry")) = 1
          /\ statusWrites[server.ID] = 1 /\ historyWrites[server.ID] = 1
    /\ (pc = "done") =>
          \A k \in 1..Len(servers) :
              (servers[k].Monitoring /\ servers[k].MonitoringURLValid) =>
                  /\ statusWrites[servers[k].ID] = 1
                  /\ historyWrites[servers[k].ID] = 1

\* a server probed online and notified whose UPDATE failed
C5_Witness ==
    /\ HandledOne
    /\ \E k \in CallsOf("updateServerStatus") : calls[k].online /\ ~calls[k].ok
    /\ CallsOf("sendStatusChangeNotification") # {}
    /\ CallsOf("addServerHistoryEntry") # {}

RequiredFetchers == {"fetchCPUUsage", "fetchMemoryUsage", "fetchDiskUsage"}

\* C6: once the CPU, memory or disk fetch of a server has failed, no
\* further fetcher is called for that server in the cycle and the server
\* is written offline
C6_ShortCircuit ==
    \A k \in 1..Len(calls) :
        (calls[k].op \in RequiredFetchers /\ ~calls[k].online) =>
            /\ \A j \in (k + 1)..Len(calls) : ~IsFetch(calls[j])
            /\ \A j \in 1..Len(calls) : IsWrite(calls[j]) => ~calls[j].online
            /\ ~online
            /\ HandledOne => /\ CallsOf("updateServerStatus") # {}
                             /\ CallsOf("addServerHistoryEntry") # {}

\* the disk fetch failed after CPU, uptime and memory were fetched, and the
\* server was fully handled
C6_Witness ==
    /\ HandledOne
    /\ \E k \in CallsOf("fetchDiskUsage") : ~calls[k].online
    /\ CallsOf("fetchUptime") # {}
    /\ \E k \in CallsOf("fetchMemoryUsage") : calls[k].online

\* C7: a server is written online exactly when its CPU, memory and disk
\* fetches all succeeded; then the GPU and the temperature fetcher are both
\* called, and a failing one only puts 0 in place of its metric
C7_OnlineIffRequiredSucceed ==
    \A u \in CallsOf("updateServerStatus") :
        LET requiredOk == \A op \in RequiredFetchers :
                              \E k \in CallsOf(op) : calls[k].online
        IN  /\ calls[u].online <=> requiredOk
            /\ requiredOk =>
                 /\ \E g \in CallsOf("fetchGPUUsage") :
                        /\ calls[u].vals[4] = calls[g].vals[1]
                        /\ ~calls[g].ok => calls[g].vals = <<0>>
                 /\ \E t \in CallsOf("fetchTemperature") :
                        /\ calls[u].vals[5] = calls[t].vals[1]
                        /\ ~calls[t].ok => calls[t].vals = <<0>>

\* both optional fetches failed and the server was written online
C7_Witness ==
    /\ \E u \in CallsOf("updateServerStatus") :
          calls[u].online /\ calls[u].vals[4] = 0 /\ calls[u].vals[5] = 0
    /\ \E g \in CallsOf("fetchGPUUsage") : ~calls[g].ok
    /\ \E t \in CallsOf("fetchTemperature") : ~calls[t].ok

\* C8 as stated: a 200 answer with a decodable, empty filesystem list makes
\* fetchDiskUsage report a failure and the server is written offline
C8_EmptyListIsOffline ==
    \A k \in CallsOf("fetchDiskUsage") :
        (calls[k].ok /\ calls[k].data = <<>>) =>
            /\ ~calls[k].online
            /\ \A j \in 1..Len(calls) : IsWrite(calls[j]) => ~calls[j].online

\* C8 as amended: a 200 answer with a decodable, empty filesystem list makes
\* fetchDiskUsage report success with the value 0, and the server is
\* written online with diskUsage 0
C8_EmptyListStaysOnline ==
    \A k \in CallsOf("fetchDiskUsage") :
        (calls[k].ok /\ calls[k].data = <<>>) =>
            /\ calls[k].online
            /\ calls[k].vals = <<0>>
            /\ \A j \in CallsOf("updateServerStatus") :
                   calls[j].online /\ calls[j].vals[3] = 0
            /\ HandledOne => CallsOf("updateServerStatus") # {}

\* a server whose filesystem list was empty has been written
C8_Witness ==
    /\ HandledOne
    /\ \E k \in CallsOf("fetchDiskUsage") : calls[k].ok /\ calls[k].data = <<>>
    /\ \E j \in CallsOf("updateServerStatus") : calls[j].online
    /\ \E j \in CallsOf("addServerHistoryEntry") : calls[j].online

\* C9: for a server of the list whose monitoring flag is off or whose
\* monitoring URL is absent no step of the cycle calls a fetcher, the
\* detector, the notifier or a write, and none changes its lastStatus entry
C9_SkippedUntouched ==
    [][ \A k \in 1..Len(servers) :
          LET id == servers[k].ID IN
          ((~servers[k].Monitoring \/ ~servers[k].MonitoringURLValid)
              /\ servers' = servers) =>
            /\ (id \in DOMAIN lastStatus') <=> (id \in DOMAIN lastStatus)
            /\ (id \in DOMAIN lastStatus) => lastStatus'[id] = lastStatus[id]
            /\ \A j \in 1..Len(calls') : calls'[j].id # id
            /\ statusWrites'[id] = 0 /\ historyWrites'[id] = 0 ]_vars

\* a server with a recorded status and no monitoring URL has just been
\* passed over
C9_Witness ==
    /\ pc = "range" /\ i = 2
    /\ server = servers[1]
    /\ server.Monitoring /\ ~server.MonitoringURLValid
    /\ 1 \in DOMAIN lastStatus
    /\ calls = <<>>

\* C10: whatever failed while earlier servers were handled, the loop goes
\* on: every monitored server before the loop index has its two writes,
\* the handling of a server starts from fresh locals, and the call returns
\* only after the last server
C10_LaterServersStillHandled ==
    /\ (pc = "done") => i = Len(servers) + 1
    /\ \A k \in 1..Len(servers) :
          (k < i /\ servers[k].Monitoring /\ servers[k].MonitoringURLValid) =>
              /\ statusWrites[servers[k].ID] = 1
              /\ historyWrites[servers[k].ID] = 1
    /\ (pc = "cpu") =>
          /\ server = servers[i]
          /\ calls = <<>>
          /\ online /\ uptimeStr = EmptyStr
          /\ <<cpuUsage, ramUsage, diskUsage, gpuUsage, temp>> = <<0, 0, 0, 0, 0>>

\* the first server was probed offline in this cycle (its row said offline
\* and the detector holds offline), and the second server has then been
\* probed online and written
C10_Witness ==
    /\ HandledOne
    /\ server.ID = 2
    /\ servers[1].Monitoring /\ servers[1].MonitoringURLValid
    /\ ~servers[1].Online
    /\ 1 \in DOMAIN lastStatus /\ ~lastStatus[1]
    /\ \E k \in CallsOf("updateServerStatus") : calls[k].online
    /\ CallsOf("addServerHistoryEntry") # {}

\* the goroutines of the round that passed server id k
CallersOf(k) == {p \in Callers : caller[p].serverID = k}

AllReturned == \A p \in Callers : caller[p].pc = "returned"

\* C11: when the concurrent calls of a round have all returned: if the
\* callers of an id all passed the same boolean and that boolean was not
\* the value recorded for the id when they were called, exactly one of them
\* got true; and a caller that was alone on its id got what a call on its
\* own would have returned, whatever the callers of other ids did
C11_CheckThenSetAtomic ==
    AllReturned =>
        \A k \in ServerIDs :
            /\ \A b \in BOOLEAN :
                  ( /\ CallersOf(k) # {}
                    /\ \A p \in CallersOf(k) : caller[p].online = b
                    /\ (k \notin DOMAIN roundStart \/ roundStart[k] # b) )
                  => Cardinality({p \in CallersOf(k) : caller[p].result}) = 1
            /\ \A p \in CallersOf(k) :
                  CallersOf(k) = {p} =>
                      /\ caller[p].result =
                            (k \notin DOMAIN roundStart \/ roundStart[k] # caller[p].online)
                      /\ lastStatus[k] = caller[p].online

\* two goroutines passed the same id and the same boolean, the id had no
\* recorded value, both have returned and one of them got true
C11_Witness ==
    /\ AllReturned
    /\ \E p, q \in Callers :
         /\ p # q
         /\ caller[p].serverID = caller[q].serverID
         /\ caller[p].online = caller[q].online
         /\ caller[p].serverID \notin DOMAIN roundStart
         /\ caller[p].result /\ ~caller[q].result

\* C12: once the handling of a monitored server is over, whether it was
\* probed online or offline, lastStatus has an entry for its id
C12_ProbedIsRecorded ==
    HandledOne => server.ID \in DOMAIN lastStatus

\* C13: a call shouldSendNotification(id, on), whatever it returns, leaves
\* lastStatus[id] = on, and neither adds, removes nor changes the entry of
\* any other id
C13_RecordsCurrent ==
    [][ Len(calls') = Len(calls) + 1 =>
          LET e == calls'[Len(calls')] IN
          /\ e.id \in DOMAIN lastStatus'
          /\ lastStatus'[e.id] = e.online
          /\ \A k \in ServerIDs \ {e.id} :
                /\ (k \in DOMAIN lastStatus') = (k \in DOMAIN lastStatus)
                /\ k \in DOMAIN lastStatus => lastStatus'[k] = lastStatus[k] ]_vars

\* calls for two ids have returned, the last of them with false, and both
\* ids hold the boolean of their latest call
C13_Witness ==
    /\ pc = "idle"
    /\ Len(calls) >= 3
    /\ ~calls[Len(calls)].ok
    /\ \E k \in 1..Len(calls) : calls[k].ok /\ calls[k].id # calls[Len(calls)].id
    /\ DOMAIN lastStatus = ServerIDs
    /\ lastStatus[calls[Len(calls)].id] = calls[Len(calls)].online

\* the fetchers in the order in which MonitorServers calls them
FetchOrder ==
    <<"fetchCPUUsage", "fetchUptime", "fetchMemoryUsage", "fetchDiskUsage",
      "fetchGPUUsage", "fetchTemperature">>

\* C14: the fetcher calls made for the server being handled are, in the
\* order in which they were made and returned, a prefix of CPU, Uptime,
\* Memory, Disk, GPU, Temperature: none is called twice, none is called
\* out of order, and all of them are calls for that server
C14_FetchersInOrder ==
    LET f == SelectSeq(calls, IsFetch) IN
    /\ Len(f) <= Len(FetchOrder)
    /\ \A k \in 1..Len(f) : f[k].op = FetchOrder[k] /\ f[k].id = server.ID

\* a server has been handled with all six fetchers called
C14_Witness ==
    /\ HandledOne
    /\ Len(SelectSeq(calls, IsFetch)) = 6
    /\ \E k \in CallsOf("fetchGPUUsage") : ~calls[k].ok

C16_ParseFailureReturnsInput ==
    fmtCall.made =>
        LET str == fmtCall.arg.uptimeStr
            parts == Split(str, CommaSpace)
            failed ==
                \/ Len(parts) \notin {1, 2}
                \/ /\ Len(parts) = 2
                   /\ Sscanf(parts[1], FormatDays).err
                   /\ Sscanf(parts[1], FormatDay).err
                \/ Sscanf(parts[Len(parts)], FormatTime).err
        IN  (fmtCall.arg.kind = "malformed" \/ failed) => fmtCall.result = str

\* formatUptime was called with "3days, 0:05:10" and gave it back
C16_Witness ==
    /\ fmtCall.made
    /\ fmtCall.arg.kind = "malformed"
    /\ Len(Split(fmtCall.arg.uptimeStr, CommaSpace)) = 2
    /\ SubSeq(fmtCall.arg.uptimeStr, 1, 5) = <<"3", "d", "a", "y", "s">>
    /\ fmtCall.result = fmtCall.arg.uptimeStr

\* C17: for a string "<N> day(s), H:MM:SS" or "H:MM:SS" formatUptime
\* returns the rendering "day.month hour:minute" of the instant that lies
\* N*86400 + H*3600 + M*60 + S seconds before now; "3 days, 3:52:36" at
\* 17:45:00 on 28 June gives "25.6 13:52"
C17_RendersStartInstant ==
    (fmtCall.made /\ fmtCall.arg.kind = "wellFormed") =>
        LET a == fmtCall.arg
            elapsed == a.days * SecondsPerDay + a.hours * SecondsPerHour
                       + a.minutes * SecondsPerMinute + a.seconds
        IN  /\ fmtCall.result = FormatLayout(fmtCall.now - elapsed)
            /\ (a.uptimeStr = UptimeDays /\ fmtCall.now \in Nows) =>
                   fmtCall.result = <<"2", "5", ".", "6", " ", "1", "3", ":", "5", "2">>

\* formatUptime was called with "1 day, 3:52:36" at 00:03:00 on 1 January
\* and returned "30.12 20:10"
C17_Witness ==
    /\ fmtCall.made
    /\ fmtCall.arg.kind = "wellFormed"
    /\ fmtCall.arg.days = 1
    /\ fmtCall.arg.uptimeStr[6] = ","
    /\ fmtCall.now \notin Nows
    /\ fmtCall.result = <<"3", "0", ".", "1", "2", " ", "2", "0", ":", "1", "0">>

\* C18: notificationTemplate changes only in the two steps that open a
\* cycle; the second of them puts "The server !name is now !status!",
\* which holds both placeholders, in place of a failed read or an empty
\* text, keeps any other text, and goes on to the loop; and every
\* notification of the cycle is the rendering of that one template
C18_TemplateReadOnce ==
    /\ [][ /\ notificationTemplate' # notificationTemplate
              => pc \in {"idle", "done", "template"}
           /\ pc = "template"
              => /\ pc' = "range"
                 /\ notificationTemplate' =
                       IF scanErr \/ notificationTemplate = EmptyStr
                       THEN <<"T", "h", "e", " ", "s", "e", "r", "v", "e", "r", " ",
                              "!", "n", "a", "m", "e", " ", "i", "s", " ", "n", "o",
                              "w", " ", "!", "s", "t", "a", "t", "u", "s", "!">>
                       ELSE notificationTemplate
                 /\ (scanErr \/ notificationTemplate = EmptyStr)
                    => /\ \E k \in 1..Len(notificationTemplate') :
                             HasPrefixAt(notificationTemplate', NamePlaceholder, k)
                       /\ \E k \in 1..Len(notificationTemplate') :
                             HasPrefixAt(notificationTemplate', StatusPlaceholder, k) ]_vars
    /\ [] ( \A k \in CallsOf("sendStatusChangeNotification") :
               calls[k].text =
                  ReplaceAll(ReplaceAll(notificationTemplate, NamePlaceholder, server.Name),
                             StatusPlaceholder,
                             IF calls[k].online THEN OnlineWord ELSE OfflineWord) )

\* the cycle runs on the default template (its read failed or gave the
\* empty text): the first server has been handled and a notification for
\* the second one has gone out with the default wording
C18_Witness ==
    /\ HandledOne
    /\ server.ID = 2
    /\ statusWrites[1] = 1
    /\ notificationTemplate = DefaultTemplate
    /\ \E k \in CallsOf("sendStatusChangeNotification") :
          SubSeq(calls[k].text, 1, 10) = SubSeq(DefaultTemplate, 1, 10)

\* C19: when the uptime fetch fails (transport error, status other than
\* 200, body that cannot be read) it returns the empty string and the
\* server is still held online; the memory fetch follows, the disk fetch
\* follows a successful memory fetch, and with memory and disk fetched the
\* GPU and temperature fetches follow and the server is written online,
\* with the empty uptime string
C19_UptimeFailureIsHarmless ==
    \A u \in CallsOf("fetchUptime") :
        ~calls[u].ok =>
            LET memOK  == \E k \in CallsOf("fetchMemoryUsage") : calls[k].online
                diskOK == \E k \in CallsOf("fetchDiskUsage") : calls[k].online
            IN  /\ calls[u].text = EmptyStr
                /\ uptimeStr = EmptyStr
                /\ pc = "mem" => online
                /\ pc # "mem" => \E k \in CallsOf("fetchMemoryUsage") : k > u
                /\ HandledOne =>
                      /\ memOK => \E k \in CallsOf("fetchDiskUsage") : k > u
                      /\ (memOK /\ diskOK) =>
                            /\ \E k \in CallsOf("fetchGPUUsage") : k > u
                            /\ \E k \in CallsOf("fetchTemperature") : k > u
                            /\ \E k \in CallsOf("updateServerStatus") :
                                  calls[k].online /\ calls[k].text = EmptyStr
                            /\ \E k \in CallsOf("addServerHistoryEntry") : calls[k].online

\* the uptime endpoint answered 500; the other five fetchers were called
\* all the same and the server has been written online
C19_Witness ==
    /\ HandledOne
    /\ \E u \in CallsOf("fetchUptime") : ~calls[u].ok
    /\ Len(SelectSeq(calls, IsFetch)) = 6
    /\ \E k \in CallsOf("updateServerStatus") : calls[k].online /\ calls[k].text = EmptyStr
    /\ \E k \in CallsOf("addServerHistoryEntry") : calls[k].online

\* positions of the log holding the transition check or the notification
NotifyPositions ==
    CallsOf("shouldSendNotification") \cup CallsOf("sendStatusChangeNotification")

\* C20 as stated: for the server being handled, the fetches come first and
\* no UPDATE and no INSERT is issued before the transition check and the
\* notification
C20_NotifyBeforeWrites ==
    /\ \A f \in 1..Len(calls), e \in 1..Len(calls) :
          (IsFetch(calls[f]) /\ ~IsFetch(calls[e])) => f < e
    /\ \A n \in NotifyPositions, w \in 1..Len(calls) :
          IsWrite(calls[w]) => n < w

\* C20 as the code has it: the fetches come first and the INSERT last; no
\* INSERT is issued before the transition check and the notification; an
\* UPDATE with online = true comes after them, an UPDATE with online =
\* false comes before them, and the INSERT that follows it is issued only
\* after the transition check
C20_OrderPerPath ==
    /\ \A f \in 1..Len(calls), e \in 1..Len(calls) :
          (IsFetch(calls[f]) /\ ~IsFetch(calls[e])) => f < e
    /\ \A h \in CallsOf("addServerHistoryEntry") :
          /\ \A n \in NotifyPositions : n < h
          /\ \A u \in CallsOf("updateServerStatus") : u < h
    /\ \A u \in CallsOf("updateServerStatus") :
          IF calls[u].online
          THEN \A n \in NotifyPositions : n < u
          ELSE /\ \A n \in NotifyPositions : u < n
               /\ \A h \in CallsOf("addServerHistoryEntry") :
                     \E n \in CallsOf("shouldSendNotification") : u < n /\ n < h

\* a server was probed offline: its UPDATE was issued, then the detector
\* was asked and the notification sent, then the INSERT was issued
C20_Witness ==
    /\ HandledOne
    /\ \E u \in CallsOf("updateServerStatus") :
          /\ ~calls[u].online
          /\ Len(calls) = u + 3
          /\ calls[u + 1].op = "shouldSendNotification"
          /\ calls[u + 2].op = "sendStatusChangeNotification"
          /\ calls[u + 3].op = "addServerHistoryEntry"

\* C21: a notification sent for the server being handled carries "online"
\* in place of !status if the CPU, memory and disk fetches of this cycle
\* succeeded and "offline" if one of them failed; it carries neither the
\* other word nor a placeholder left as it was, and every UPDATE and INSERT
\* issued for the server in the cycle has that same status
C21_MessageCarriesProbedStatus ==
    \A s \in CallsOf("sendStatusChangeNotification") :
        LET probedOnline == \E k \in CallsOf("fetchDiskUsage") : calls[k].online
            word  == IF probedOnline THEN OnlineWord ELSE OfflineWord
            other == IF probedOnline THEN OfflineWord ELSE OnlineWord
            text  == calls[s].text
        IN  /\ calls[s].online = probedOnline
            /\ \E k \in 1..Len(text) : HasPrefixAt(text, word, k)
            /\ \A k \in 1..Len(text) :
                  ~HasPrefixAt(text, other, k) /\ ~HasPrefixAt(text, StatusPlaceholder, k)
            /\ \A w \in 1..Len(calls) :
                  IsWrite(calls[w]) => calls[w].online = probedOnline

\* a server whose row said online was probed offline: "offline" was
\* notified and written
C21_Witness ==
    /\ HandledOne
    /\ server.Online
    /\ \E s \in CallsOf("sendStatusChangeNotification") :
          /\ ~calls[s].online
          /\ \E k \in 1..Len(calls[s].text) : HasPrefixAt(calls[s].text, OfflineWord, k)
    /\ \E w \in CallsOf("updateServerStatus") : ~calls[w].online
    /\ \E w \in CallsOf("addServerHistoryEntry") : ~calls[w].online

\* C22: a call of MonitorServers works on the list it was handed, takes
\* the servers one after the other in list order (the loop index only ever
\* moves on by one, and the server taken up is the one at the index),
\* issues at most one UPDATE and one INSERT per server, returns only with
\* the index past the end of the list, and does return, whatever the
\* fetches and the writes answer
C22_OnePassAndReturn ==
    /\ [][ /\ pc \notin {"idle", "done"} => servers' = servers
           /\ i' # i => (i' = i + 1 \/ pc \in {"idle", "done"})
           /\ (pc = "range" /\ i <= Len(servers)) => server' = servers[i]
           /\ (pc = "range" /\ pc' = "cpu") => server' = servers[i] /\ i' = i
           /\ pc' = "done" => i' = Len(servers) + 1 ]_vars
    /\ [] ( \A k \in ServerIDs : statusWrites[k] <= 1 /\ historyWrites[k] <= 1 )
    /\ (pc = "template") ~> (pc = "done")

\* the call has returned after handling a list in which every server is
\* monitored, one of them probed offline and one online
C22_Witness ==
    /\ pc = "done"
    /\ i = NumServers + 1
    /\ \A k \in ServerIDs : statusWrites[k] = 1 /\ historyWrites[k] = 1
    /\ \E k \in DOMAIN lastStatus : ~lastStatus[k]
    /\ \E k \in DOMAIN lastStatus : lastStatus[k]

\* C23: a notification sent for a server never carries the status of the
\* notification sent last for that server, in this or in an earlier cycle:
\* the statuses notified for a server alternate
C23_StatusesAlternate ==
    [][ \A k \in (Len(calls) + 1)..Len(calls') :
           calls'[k].op = "sendStatusChangeNotification" =>
              /\ calls'[k].id \notin DOMAIN lastSent
                    \/ lastSent[calls'[k].id] # calls'[k].online
              /\ lastSent'[calls'[k].id] = calls'[k].online ]_vars

\* in a later cycle "online" has been notified for a server whose row said
\* offline, while the last notification of another server said "offline"
C23_Witness ==
    /\ HandledOne
    /\ ~firstCycle
    /\ ~server.Online
    /\ \E k \in CallsOf("sendStatusChangeNotification") : calls[k].online
    /\ server.ID \in DOMAIN lastSent /\ lastSent[server.ID]
    /\ \E k \in DOMAIN lastSent : ~lastSent[k]

\* C24: with every UPDATE succeeding and every call handed the rows as
\* the call before wrote them, from the second cycle on: when the probed
\* status of a server differs from its row (the status probed and written
\* in the cycle before), the notification site sends exactly one message,
\* with the new status; when it does not differ, the site sends none
C24_ChangeNotifiedOnce ==
    [][ (pc \in {"offlineNotify", "onlineNotify"} /\ ~firstCycle) =>
           LET sends == {k \in (Len(calls) + 1)..Len(calls') :
                            calls'[k].op = "sendStatusChangeNotification"}
           IN  /\ CallsOf("sendStatusChangeNotification") = {}
               /\ IF online # server.Online
                  THEN /\ Cardinality(sends) = 1
                       /\ \A k \in sends :
                             calls'[k].id = server.ID /\ calls'[k].online = online
                  ELSE sends = {} ]_vars

\* in a later cycle a server whose row said online (written by the cycle
\* before) was probed offline: the row now says offline and "offline" was
\* notified
C24_Witness ==
    /\ HandledOne
    /\ ~firstCycle
    /\ server.Online
    /\ ~servers[i - 1].Online
    /\ servers[i - 1].ID = server.ID
    /\ \E k \in CallsOf("sendStatusChangeNotification") : ~calls[k].online
    /\ \E k \in CallsOf("updateServerStatus") : ~calls[k].online /\ calls[k].ok

\* C25: for a server probed online whose row already says online, the
\* notification site calls nothing and leaves lastStatus as it is, whether
\* it has an entry for the server or not; the UPDATE and the INSERT are
\* issued all the same, and neither the detector nor the notification
\* sender has been called for the server when its handling ends
C25_OnlineUnchangedSkipsDetector ==
    /\ [][ (pc = "onlineNotify" /\ online /\ server.Online) =>
              /\ lastStatus' = lastStatus
              /\ calls' = calls
              /\ pc' = "onlineUpdate" ]_vars
    /\ [] ( ( /\ HandledOne
              /\ server.Online
              /\ \E k \in CallsOf("fetchDiskUsage") : calls[k].online )
            => /\ NotifyPositions = {}
               /\ \E k \in CallsOf("updateServerStatus") : calls[k].online
               /\ \E k \in CallsOf("addServerHistoryEntry") : calls[k].online )

\* a server recorded offline by the detector, with a row that says online,
\* has been probed online: both writes were issued and the detector still
\* holds offline
C25_Witness ==
    /\ HandledOne
    /\ server.Online
    /\ \E k \in CallsOf("fetchDiskUsage") : calls[k].online
    /\ server.ID \in DOMAIN lastStatus /\ ~lastStatus[server.ID]
    /\ \E k \in CallsOf("updateServerStatus") : calls[k].online
    /\ \E k \in CallsOf("addServerHistoryEntry") : calls[k].online

\* C26: with cycles run one after the other, between the steps of
\* MonitorServers lastStatus has an entry for exactly the server ids for
\* which a notification has been sent since the process started, and the
\* entry is the status of the last notification sent for the id
C26_MemoryMirrorsNotifications ==
    /\ DOMAIN lastStatus = DOMAIN lastSent
    /\ \A k \in DOMAIN lastStatus : lastStatus[k] = lastSent[k]

\* notifications have been sent for one server only, the last of them
\* saying "online"; a server probed online with a row saying online has
\* just been handled and has no entry
C26_Witness ==
    /\ HandledOne
    /\ ~firstCycle
    /\ server.ID \notin DOMAIN lastStatus
    /\ \E k \in CallsOf("updateServerStatus") : calls[k].online
    /\ \E k \in DOMAIN lastSent : lastSent[k] /\ lastStatus[k]

\* C27: when the concurrent sweeps have all left their notification
\* sites, the status of the last notification sent for a server is the
\* status lastStatus holds for it
C27_LastNotificationIsFinalStatus ==
    (\A p \in Callers : caller[p].pc = "left") =>
        \A k \in DOMAIN lastSent : lastSent[k] = lastStatus[k]

\* C28: while a server is handled, at most one of the CPU, memory and
\* disk fetches has failed and no fetch follows a failed one, so that one
\* notification site at most is reached: the offline site of the failed
\* fetch, or the online site after the temperature fetch; the detector is
\* asked at most once and at most one notification is sent, with the
\* status of that site
C28_OneSiteOneNotification ==
    LET failed == {k \in 1..Len(calls) :
                      calls[k].op \in RequiredFetchers /\ ~calls[k].online}
    IN  /\ Cardinality(failed) <= 1
        /\ \A f \in failed : \A k \in 1..Len(calls) : IsFetch(calls[k]) => k <= f
        /\ Cardinality(CallsOf("shouldSendNotification")) <= 1
        /\ Cardinality(CallsOf("sendStatusChangeNotification")) <= 1
        /\ \A s \in NotifyPositions :
              /\ calls[s].id = server.ID
              /\ calls[s].online = (failed = {})
              /\ \A f \in failed : f < s
              /\ failed = {} => \E k \in CallsOf("fetchTemperature") : k < s

\* the memory fetch of a server failed: the offline site after it sent
\* the one notification of the server
C28_Witness ==
    /\ HandledOne
    /\ \E k \in CallsOf("fetchMemoryUsage") : ~calls[k].online
    /\ CallsOf("fetchDiskUsage") = {}
    /\ Cardinality(CallsOf("sendStatusChangeNotification")) = 1

\* C29: the UPDATE and the INSERT issued for a server in a cycle carry
\* the same server id and the same online flag, and each of the five
\* numbers of the INSERT (cpu, ram, disk, gpu, temperature) is the number
\* of the UPDATE at the same place printed with two decimals: it is the
\* "%.2f" rendering and lies within half a hundredth of it
C29_WritesAgree ==
    \A u \in CallsOf("updateServerStatus"), h \in CallsOf("addServerHistoryEntry") :
        /\ calls[u].id = calls[h].id
        /\ calls[u].online = calls[h].online
        /\ Len(calls[u].vals) = 5 /\ Len(calls[h].vals) = 5
        /\ \A j \in 1..5 :
              /\ calls[h].vals[j] = Sprintf2f(calls[u].vals[j])
              /\ 10 * calls[h].vals[j] - calls[u].vals[j] \in -5..5

\* a server was written online with a GPU and a temperature reading, the
\* disk value 61.003 going into the history as 61.00
C29_Witness ==
    /\ HandledOne
    /\ \E u \in CallsOf("updateServerStatus"), h \in CallsOf("addServerHistoryEntry") :
          /\ calls[u].online /\ calls[h].online
          /\ calls[u].vals[3] = 61003 /\ calls[h].vals[3] = 6100
          /\ calls[u].vals[4] # 0 /\ calls[u].vals[5] # 0

\* C30: every notification sent for the server being handled holds the
\* server's name, character by character, somewhere in its text
C30_NameVerbatim ==
    \A s \in CallsOf("sendStatusChangeNotification") :
        \E k \in 1..Len(calls[s].text) : HasPrefixAt(calls[s].text, server.Name, k)

====
